---- MODULE Spec2Model ----
(***************************************************************************)
(* Model of packages/language-service/ivy/utils.ts: the span resolver      *)
(* (getTextSpanOfNode), the template locator (getTemplateInfoAtPosition),  *)
(* the directive attribution by elimination                                *)
(* (getDirectiveMatchesForElementTag / getDirectiveMatchesForAttribute)    *)
(* and the display-part filter (filterAliasImports).                       *)
(*                                                                         *)
(* Every function of the file is pure.  A behaviour is one call: the       *)
(* initial state holds the arguments (pc = "call"), the action of the      *)
(* called function stores what it returns in ret (pc = "done").            *)
(***************************************************************************)
EXTENDS Integers, Sequences, FiniteSets

VARIABLES
    pc,     \* "call" before the function ran, "done" after it returned
    op,     \* the exported function that is called
    args,   \* its arguments, a record
    ret     \* its return value once pc = "done"

vars == <<pc, op, args, ret>>

\* JavaScript's null and undefined.  null is a one-element tuple so that it can be
\* compared with the strings (token sequences) and arrays it stands in for.
Null == <<"null">>
Undefined == [undefined |-> TRUE]

\* The value of ret while the call has not returned.
NoReturn == [pending |-> TRUE]

(***************************************************************************)
(* Bounds of the input spaces.                                             *)
(***************************************************************************)
MaxOffset == 3
MaxParts == 4
MaxNameLen == 2
MaxFullStart == 1
MaxComponents == 3
MaxStatements == 3
MaxWidth == 2
MaxPosition == 5
MaxAttrs == 2
MaxDirectives == 2

RECURSIVE SeqsUpTo(_, _)
\* The sequences over S of length at most n.
SeqsUpTo(S, n) ==
    IF n = 0 THEN {<<>>}
    ELSE LET shorter == SeqsUpTo(S, n - 1)
         IN  shorter \cup {Append(q, x) : q \in {r \in shorter : Len(r) = n - 1}, x \in S}

\* The elements of q at the indices of S, in increasing index order.
SubSeqAt(q, S) ==
    [k \in 1..Cardinality(S) |->
        q[CHOOSE i \in S : Cardinality({j \in S : j <= i}) = k]]

(***************************************************************************)
(* SpanResolver: getTextSpanOfNode, toTextSpan.                            *)
(***************************************************************************)

\* An AbsoluteSourceSpan carries its offsets directly.
AbsoluteSourceSpan(s, e) == [cls |-> "AbsoluteSourceSpan", start |-> s, end |-> e]

\* A ParseSourceSpan carries two ParseLocations, each with an offset.
ParseSourceSpan(s, e) ==
    [cls |-> "ParseSourceSpan", start |-> [offset |-> s], end |-> [offset |-> e]]

Ranges == {r \in (0..MaxOffset) \X (0..MaxOffset) : r[1] <= r[2]}

AbsoluteSpans == {AbsoluteSourceSpan(r[1], r[2]) : r \in Ranges}
ParseSpans == {ParseSourceSpan(r[1], r[2]) : r \in Ranges}

\* Expression AST classes that carry a nameSpan and that getTextSpanOfNode tests for.
NamedExpressionClasses == {"PropertyWrite", "MethodCall", "BindingPipe", "PropertyRead"}
\* Other members of the expression family (none of them extends a class above).
OtherExpressionClasses == {"SafePropertyRead", "LiteralPrimitive"}
\* Template AST classes with a keySpan property, and without one.
KeyedTemplateClasses == {"TextAttribute", "BoundAttribute", "Reference"}
PlainTemplateClasses == {"Element", "Text"}

\* The nodes of the two AST families.  own is the set of own property names that
\* hasOwnProperty can see; template nodes have a ParseSourceSpan sourceSpan,
\* expression nodes an AbsoluteSourceSpan one.
TemplateNodes ==
    { [cls |-> c, own |-> {"sourceSpan", "keySpan"}, sourceSpan |-> s, keySpan |-> k]
        : c \in KeyedTemplateClasses, s \in ParseSpans, k \in ParseSpans }
    \cup
    { [cls |-> c, own |-> {"sourceSpan"}, sourceSpan |-> s]
        : c \in PlainTemplateClasses, s \in ParseSpans }

ExpressionNodes ==
    { [cls |-> c, own |-> {"sourceSpan", "nameSpan"}, sourceSpan |-> s, nameSpan |-> n]
        : c \in NamedExpressionClasses, s \in AbsoluteSpans, n \in AbsoluteSpans }
    \cup
    { [cls |-> c, own |-> {"sourceSpan"}, sourceSpan |-> s]
        : c \in OtherExpressionClasses, s \in AbsoluteSpans }

Nodes == TemplateNodes \cup ExpressionNodes

toTextSpan(span) ==
    LET start == IF span.cls = "AbsoluteSourceSpan" THEN span.start ELSE span.start.offset
        end   == IF span.cls = "AbsoluteSourceSpan" THEN span.end ELSE span.end.offset
    IN  [start |-> start, length |-> end - start]

isTemplateNode(node) == node.sourceSpan.cls = "ParseSourceSpan"

isTemplateNodeWithKeyAndValue(node) == isTemplateNode(node) /\ "keySpan" \in node.own

\* A mutant of getTextSpanOfNode: the key span is never looked at.
getTextSpanOfNodeNoKey(node) ==
    IF node.cls \in {"PropertyWrite", "MethodCall", "BindingPipe", "PropertyRead"}
    THEN toTextSpan(node.nameSpan)
    ELSE toTextSpan(node.sourceSpan)

getTextSpanOfNode(node) ==
    IF isTemplateNodeWithKeyAndValue(node)
    THEN toTextSpan(node.keySpan)
    ELSE IF node.cls \in {"PropertyWrite", "MethodCall", "BindingPipe", "PropertyRead"}
    THEN toTextSpan(node.nameSpan)
    ELSE toTextSpan(node.sourceSpan)

InitSpan ==
    /\ pc = "call"
    /\ op = "getTextSpanOfNode"
    /\ args \in {[node |-> n] : n \in Nodes}
    /\ ret = NoReturn

CallGetTextSpanOfNode ==
    /\ pc = "call"
    /\ op = "getTextSpanOfNode"
    /\ ret' = getTextSpanOfNode(args.node)
    /\ pc' = "done"
    /\ UNCHANGED <<op, args>>

NextSpan == CallGetTextSpanOfNode

SpecSpan == InitSpan /\ [][NextSpan]_vars

\* The offsets of a span, whichever of the two classes it has.
SpanStart(span) == IF span.cls = "AbsoluteSourceSpan" THEN span.start ELSE span.start.offset
SpanEnd(span) == IF span.cls = "AbsoluteSourceSpan" THEN span.end ELSE span.end.offset

\* The span the priority rule of the claim selects.
SelectedSpan(node) ==
    IF node.cls \in (KeyedTemplateClasses \cup PlainTemplateClasses) /\ "keySpan" \in node.own
    THEN node.keySpan
    ELSE IF node.cls \in NamedExpressionClasses
    THEN node.nameSpan
    ELSE node.sourceSpan

\* C8: getTextSpanOfNode returns {start, length = end - start} of the key span for a
\* template node with a keySpan, else of the nameSpan for a PropertyRead,
\* PropertyWrite, MethodCall or BindingPipe, else of the sourceSpan, for absolute
\* and for parsed spans alike.
C8_SpanPriority ==
    (pc = "done" /\ op = "getTextSpanOfNode") =>
        /\ ret.start = SpanStart(SelectedSpan(args.node))
        /\ ret.length = SpanEnd(SelectedSpan(args.node)) - SpanStart(SelectedSpan(args.node))

\* A keyed template node whose key span differs from its source span and does not
\* start at offset 0 has been resolved.
C8_Witness ==
    /\ pc = "done" /\ op = "getTextSpanOfNode"
    /\ args.node.cls = "BoundAttribute"
    /\ args.node.keySpan # args.node.sourceSpan
    /\ args.node.keySpan.start.offset > 0
    /\ ret.length > 0

(***************************************************************************)
(* DisplayTextFilter: filterAliasImports.                                  *)
(***************************************************************************)

\* The display part kinds of ../common/quick_info the filter tests for.
ALIAS_NAME == "aliasName"
SYMBOL_PUNC == "punctuation"

Digits == {"0", "1"}

\* The text of a part is a sequence of characters.
PartTexts == { <<"i", "0">>, <<".">>, <<"i">>, <<"a", "i", "1">> }
PartKinds == {ALIAS_NAME, SYMBOL_PUNC, "className"}
DisplayParts == { [kind |-> k, text |-> t] : k \in PartKinds, t \in PartTexts }

\* /i\d+/.test(text): the text holds an i followed by a digit, anywhere.
tcbAliasImportRegex(text) ==
    \E k \in 1..(Len(text) - 1) : text[k] = "i" /\ text[k + 1] \in Digits

isImportAlias(part) == part.kind = ALIAS_NAME /\ tcbAliasImportRegex(part.text)

isDotPunctuation(part) == part.kind = SYMBOL_PUNC /\ part.text = <<".">>

\* A mutant of the callback: an alias name is dropped whatever follows it.
filterCallbackAnyAlias(displayParts, i) ==
    LET part == displayParts[i]
        dotPrecededByAlias ==
            /\ isDotPunctuation(part)
            /\ i - 1 >= 1
            /\ isImportAlias(displayParts[i - 1])
    IN  ~isImportAlias(part) /\ ~dotPrecededByAlias

\* The callback of displayParts.filter: whether the part at index i is kept.
\* displayParts[i - 1] and displayParts[i + 1] are undefined outside the array.
filterCallback(displayParts, i) ==
    LET part == displayParts[i]
        aliasNameFollowedByDot ==
            /\ isImportAlias(part)
            /\ i + 1 <= Len(displayParts)
            /\ isDotPunctuation(displayParts[i + 1])
        dotPrecededByAlias ==
            /\ isDotPunctuation(part)
            /\ i - 1 >= 1
            /\ isImportAlias(displayParts[i - 1])
    IN  ~aliasNameFollowedByDot /\ ~dotPrecededByAlias

RECURSIVE filterFrom(_, _)
\* Array.prototype.filter from index i on: the kept elements, in order.
filterFrom(displayParts, i) ==
    IF i > Len(displayParts) THEN <<>>
    ELSE (IF filterCallback(displayParts, i) THEN <<displayParts[i]>> ELSE <<>>)
            \o filterFrom(displayParts, i + 1)

RECURSIVE filterDotsFrom(_, _)
filterDotsFrom(displayParts, i) ==
    IF i > Len(displayParts) THEN <<>>
    ELSE (IF isDotPunctuation(displayParts[i]) /\ i - 1 >= 1
                /\ isImportAlias(displayParts[i - 1])
          THEN <<>> ELSE <<displayParts[i]>>)
            \o filterDotsFrom(displayParts, i + 1)

\* A mutant of filterAliasImports: only the dot after an alias is dropped.
filterAliasImportsDotsOnly(displayParts) == filterDotsFrom(displayParts, 1)

filterAliasImports(displayParts) == filterFrom(displayParts, 1)

InitFilter ==
    /\ pc = "call"
    /\ op = "filterAliasImports"
    /\ args \in {[displayParts |-> q] : q \in SeqsUpTo(DisplayParts, MaxParts)}
    /\ ret = NoReturn

CallFilterAliasImports ==
    /\ pc = "call"
    /\ op = "filterAliasImports"
    /\ ret' = filterAliasImports(args.displayParts)
    /\ pc' = "done"
    /\ UNCHANGED <<op, args>>

NextFilter == CallFilterAliasImports

SpecFilter == InitFilter /\ [][NextFilter]_vars

\* An alias-name part in the sense of the filter: kind alias-name, text with i<digits>.
AliasNamePart(part) ==
    /\ part.kind = "aliasName"
    /\ \E k \in 1..(Len(part.text) - 1) : part.text[k] = "i" /\ part.text[k + 1] \in {"0", "1"}

DotPart(part) == part.kind = "punctuation" /\ part.text = <<".">>

\* The indices the claim says are removed, decided from the neighbours in the input.
RemovedIndices(parts) ==
    { i \in 1..Len(parts) :
        \/ AliasNamePart(parts[i]) /\ i < Len(parts) /\ DotPart(parts[i + 1])
        \/ DotPart(parts[i]) /\ i > 1 /\ AliasNamePart(parts[i - 1]) }

AliasI0 == [kind |-> "aliasName", text |-> <<"i", "0">>]
PuncDot == [kind |-> "punctuation", text |-> <<".">>]

\* C9: filterAliasImports removes the element at index i iff it is an alias-name
\* part immediately followed by a '.' punctuation part or a '.' punctuation part
\* immediately preceded by an alias-name part; the others are kept unchanged in
\* their input order; [alias i0, '.'] gives the empty sequence and [alias i0] is
\* returned unchanged.
C9_LocalFilter ==
    (pc = "done" /\ op = "filterAliasImports") =>
        /\ ret = SubSeqAt(args.displayParts,
                          (1..Len(args.displayParts)) \ RemovedIndices(args.displayParts))
        /\ (args.displayParts = <<AliasI0, PuncDot>> => ret = <<>>)
        /\ (args.displayParts = <<AliasI0>> => ret = <<AliasI0>>)

\* An input with a removed alias/dot pair between two kept parts has been filtered.
C9_Witness ==
    /\ pc = "done" /\ op = "filterAliasImports"
    /\ Len(args.displayParts) = 4
    /\ RemovedIndices(args.displayParts) = {2, 3}
    /\ Len(ret) = 2

\* An alias-name part immediately followed by a '.' punctuation part in a sequence.
AliasThenDot(parts) ==
    \E k \in 1..(Len(parts) - 1) : AliasNamePart(parts[k]) /\ DotPart(parts[k + 1])

\* C10 as stated: the output of filterAliasImports never holds an alias-name part
\* immediately followed by a '.' punctuation part.
C10_NoAliasDotInOutput ==
    (pc = "done" /\ op = "filterAliasImports") => ~AliasThenDot(ret)

\* C10 amended: when no alias-name part of the input is immediately followed by
\* another alias-name part, the output holds no alias-name part immediately
\* followed by a '.' punctuation part.
C10_NoAliasDotUnlessAliasRun ==
    (/\ pc = "done" /\ op = "filterAliasImports"
     /\ ~\E k \in 1..(Len(args.displayParts) - 1) :
            AliasNamePart(args.displayParts[k]) /\ AliasNamePart(args.displayParts[k + 1]))
        => ~AliasThenDot(ret)

\* An input with an alias import and no two alias names in a row has been filtered
\* and something of it is left.
C10_Witness ==
    /\ pc = "done" /\ op = "filterAliasImports"
    /\ AliasThenDot(args.displayParts)
    /\ ~\E k \in 1..(Len(args.displayParts) - 1) :
            AliasNamePart(args.displayParts[k]) /\ AliasNamePart(args.displayParts[k + 1])
    /\ Len(ret) >= 2

(***************************************************************************)
(* TemplateLocator: getTemplateInfoAtPosition and its two modes.           *)
(***************************************************************************)

\* A string is the sequence of its UTF-16 code units:
\* '.' = 46, 'a' = 97, 'b' = 98, 'h' = 104, 'l' = 108, 'm' = 109, 's' = 115, 't' = 116.

\* String.prototype.endsWith.
endsWith(str, suffix) ==
    /\ Len(suffix) <= Len(str)
    /\ SubSeq(str, Len(str) - Len(suffix) + 1, Len(str)) = suffix

RECURSIVE StringLess(_, _)
\* The < of two JavaScript strings: code unit by code unit, a proper prefix first.
StringLess(x, y) ==
    IF y = <<>> THEN FALSE
    ELSE IF x = <<>> THEN TRUE
    ELSE IF Head(x) # Head(y) THEN Head(x) < Head(y)
    ELSE StringLess(Tail(x), Tail(y))

\* A mutant of the comparator: within a file the smaller start sorts first.
tsDeclarationSortComparatorAscending(a, b) ==
    IF StringLess(a.fileName, b.fileName) THEN -1
    ELSE IF StringLess(b.fileName, a.fileName) THEN 1
    ELSE a.fullStart - b.fullStart

\* a.getSourceFile().fileName is a.fileName, a.getFullStart() is a.fullStart.
tsDeclarationSortComparator(a, b) ==
    IF StringLess(a.fileName, b.fileName) THEN -1
    ELSE IF StringLess(b.fileName, a.fileName) THEN 1
    ELSE b.fullStart - a.fullStart

\* The file names of the declarations compared: "a", "b", "aa", "ab", ...
DeclFileNames == SeqsUpTo({97, 98}, MaxNameLen) \ {<<>>}

ComparedDeclarations ==
    { [fileName |-> f, fullStart |-> o] : f \in DeclFileNames, o \in 0..MaxFullStart }

InitCompare ==
    /\ pc = "call"
    /\ op = "tsDeclarationSortComparator"
    /\ args \in { [a |-> x, b |-> y, c |-> z] :
                    x \in ComparedDeclarations, y \in ComparedDeclarations,
                    z \in ComparedDeclarations }
    /\ ret = NoReturn

\* The comparator applied to the pairs of the three declarations.
CallComparator ==
    /\ pc = "call"
    /\ op = "tsDeclarationSortComparator"
    /\ ret' = [ab |-> tsDeclarationSortComparator(args.a, args.b),
               ba |-> tsDeclarationSortComparator(args.b, args.a),
               bc |-> tsDeclarationSortComparator(args.b, args.c),
               ac |-> tsDeclarationSortComparator(args.a, args.c)]
    /\ pc' = "done"
    /\ UNCHANGED <<op, args>>

NextCompare == CallComparator

SpecCompare == InitCompare /\ [][NextCompare]_vars

\* x is lexicographically smaller than y: x is a proper prefix of y, or x has the
\* smaller code unit at the first position where they differ.
LexSmaller(x, y) ==
    \/ Len(x) < Len(y) /\ SubSeq(y, 1, Len(x)) = x
    \/ \E k \in 1..Len(x) :
          /\ k <= Len(y)
          /\ SubSeq(x, 1, k - 1) = SubSeq(y, 1, k - 1)
          /\ x[k] < y[k]

Sign(n) == IF n < 0 THEN -1 ELSE IF n > 0 THEN 1 ELSE 0

\* C5: tsDeclarationSortComparator is a total order on declarations: in different
\* files the lexicographically smaller file path sorts first whatever the offsets,
\* in the same file the larger full start sorts first, and the comparison is
\* antisymmetric, transitive and equal only for the same file and offset.
C5_ComparatorTotalOrder ==
    (pc = "done" /\ op = "tsDeclarationSortComparator") =>
        /\ LexSmaller(args.a.fileName, args.b.fileName) => (ret.ab < 0 /\ ret.ba > 0)
        /\ (args.a.fileName = args.b.fileName /\ args.a.fullStart > args.b.fullStart)
                => (ret.ab < 0 /\ ret.ba > 0)
        /\ Sign(ret.ab) = - Sign(ret.ba)
        /\ (ret.ab < 0 /\ ret.bc < 0) => ret.ac < 0
        /\ (ret.ab <= 0 /\ ret.bc <= 0) => ret.ac <= 0
        /\ ret.ab = 0 => (args.a.fileName = args.b.fileName
                            /\ args.a.fullStart = args.b.fullStart)

\* Three declarations have been compared where the file decides against the
\* offsets (a in the smaller file with the smaller start) and b, c share a file.
C5_Witness ==
    /\ pc = "done" /\ op = "tsDeclarationSortComparator"
    /\ LexSmaller(args.a.fileName, args.b.fileName)
    /\ args.a.fullStart < args.b.fullStart
    /\ args.b.fileName = args.c.fileName
    /\ args.b.fullStart > args.c.fullStart
    /\ ret.ab < 0 /\ ret.bc < 0 /\ ret.ac < 0

\* The compiler as the one call sees it: sourceFile is what
\* getNextProgram().getSourceFile(fileName) returns (undefined or the top-level
\* statements), components what getComponentsWithTemplateFile(fileName) returns;
\* getTemplate(declaration) is the declaration's template (null or the nodes).
getTemplate(declaration) == declaration.template

RECURSIVE insertSorted(_, _)
\* x inserted into the sorted sequence, after every element that does not sort
\* after it: elements that compare equal keep their order.
insertSorted(sorted, x) ==
    IF sorted = <<>> THEN <<x>>
    ELSE IF tsDeclarationSortComparator(Head(sorted), x) <= 0
    THEN <<Head(sorted)>> \o insertSorted(Tail(sorted), x)
    ELSE <<x>> \o sorted

RECURSIVE sortComponents(_)
\* Array.from(components).sort(tsDeclarationSortComparator), a stable sort.
sortComponents(components) ==
    IF components = <<>> THEN <<>>
    ELSE insertSorted(sortComponents(SubSeq(components, 1, Len(components) - 1)),
                      components[Len(components)])

RECURSIVE firstComponentFrom(_, _)
\* The loop over sortedComponents from index i on.
firstComponentFrom(sortedComponents, i) ==
    IF i > Len(sortedComponents) THEN Undefined
    ELSE LET component == sortedComponents[i]
         IN  IF ~component.isClass THEN firstComponentFrom(sortedComponents, i + 1)
             ELSE IF getTemplate(component) = Null
             THEN firstComponentFrom(sortedComponents, i + 1)
             ELSE [template |-> getTemplate(component), component |-> component]

\* A mutant of getFirstComponentForTemplateFile: the candidates are not sorted.
getFirstComponentForTemplateFileUnsorted(fileName, compiler) ==
    firstComponentFrom(compiler.components, 1)

getFirstComponentForTemplateFile(fileName, compiler) ==
    firstComponentFrom(sortComponents(compiler.components), 1)

RECURSIVE inlineFrom(_, _, _)
\* The loop over sourceFile.statements from index i on.
inlineFrom(statements, position, i) ==
    IF i > Len(statements) THEN Undefined
    ELSE LET statement == statements[i]
         IN  IF ~statement.isClass \/ position < statement.pos \/ position > statement.end
             THEN inlineFrom(statements, position, i + 1)
             ELSE IF getTemplate(statement) = Null THEN Undefined
             ELSE [template |-> getTemplate(statement), component |-> statement]

RECURSIVE inlineSkippingFrom(_, _, _)
inlineSkippingFrom(statements, position, i) ==
    IF i > Len(statements) THEN Undefined
    ELSE LET statement == statements[i]
         IN  IF ~statement.isClass \/ position < statement.pos \/ position > statement.end
             THEN inlineSkippingFrom(statements, position, i + 1)
             ELSE IF getTemplate(statement) = Null
             THEN inlineSkippingFrom(statements, position, i + 1)
             ELSE [template |-> getTemplate(statement), component |-> statement]

\* A mutant of getInlineTemplateInfoAtPosition: a declaration without a template is
\* skipped and the search goes on.
getInlineTemplateInfoAtPositionSkipping(fileName, position, compiler) ==
    IF compiler.sourceFile = Undefined THEN Undefined
    ELSE inlineSkippingFrom(compiler.sourceFile.statements, position, 1)

getInlineTemplateInfoAtPosition(fileName, position, compiler) ==
    IF compiler.sourceFile = Undefined THEN Undefined
    ELSE inlineFrom(compiler.sourceFile.statements, position, 1)

getTemplateInfoAtPosition(fileName, position, compiler) ==
    IF endsWith(fileName, <<46, 116, 115>>)
    THEN getInlineTemplateInfoAtPosition(fileName, position, compiler)
    ELSE getFirstComponentForTemplateFile(fileName, compiler)

\* Calls for a template file: "a.html" at offset 0, "ts" (shorter than the suffix
\* '.ts') at the last offset.  Source files: "a.ts" and ".ts".
ExternalCalls ==
    { [fileName |-> <<97, 46, 104, 116, 109, 108>>, position |-> 0],
      [fileName |-> <<116, 115>>, position |-> MaxPosition] }
InlineFileNames == { <<97, 46, 116, 115>>, <<46, 116, 115>> }

\* What a declaration can be: not class-like, a class without a template, a class
\* with one.
DeclarationKinds ==
    { [isClass |-> FALSE, template |-> Null],
      [isClass |-> TRUE, template |-> Null],
      [isClass |-> TRUE, template |-> <<"node">>] }

\* The candidate declarations of a template file, in the files "a" and "ab".
CandidateDeclarations ==
    { [fileName |-> f, fullStart |-> o, isClass |-> k.isClass, template |-> k.template]
        : f \in { <<97>>, <<97, 98>> }, o \in 0..MaxFullStart, k \in DeclarationKinds }

RECURSIVE layOut(_, _)
\* The statements of a source file from their kinds and widths: the first starts
\* at offset start, each next one where the one before ends.
layOut(shapes, start) ==
    IF shapes = <<>> THEN <<>>
    ELSE <<[isClass |-> Head(shapes).kind.isClass, template |-> Head(shapes).kind.template,
            pos |-> start, end |-> start + Head(shapes).width]>>
            \o layOut(Tail(shapes), start + Head(shapes).width)

StatementShapes == { [kind |-> k, width |-> w] : k \in DeclarationKinds, w \in 1..MaxWidth }

SourceFiles ==
    {Undefined} \cup
    { [statements |-> layOut(q, 0)] : q \in SeqsUpTo(StatementShapes, MaxStatements) }

InitLocate ==
    /\ pc = "call"
    /\ op = "getTemplateInfoAtPosition"
    /\ \/ args \in { [fileName |-> e.fileName, position |-> e.position,
                      compiler |-> [sourceFile |-> Undefined, components |-> c]]
                        : e \in ExternalCalls,
                          c \in SeqsUpTo(CandidateDeclarations, MaxComponents) }
       \/ args \in { [fileName |-> f, position |-> p,
                      compiler |-> [sourceFile |-> sf, components |-> <<>>]]
                        : f \in InlineFileNames, p \in 0..MaxPosition, sf \in SourceFiles }
    /\ ret = NoReturn

CallGetTemplateInfoAtPosition ==
    /\ pc = "call"
    /\ op = "getTemplateInfoAtPosition"
    /\ ret' = getTemplateInfoAtPosition(args.fileName, args.position, args.compiler)
    /\ pc' = "done"
    /\ UNCHANGED <<op, args>>

NextLocate == CallGetTemplateInfoAtPosition

SpecLocate == InitLocate /\ [][NextLocate]_vars

\* The file name does not end in ".ts".
ExternalMode(fileName) ==
    \/ Len(fileName) < 3
    \/ <<fileName[Len(fileName) - 2], fileName[Len(fileName) - 1], fileName[Len(fileName)]>>
            # <<46, 116, 115>>

Range(q) == {q[i] : i \in 1..Len(q)}

\* A candidate that can be returned: class-like, with a template.
Viable(d) == d.isClass /\ d.template # Null

\* c comes strictly before d in the candidate order: file path ascending, then
\* start offset descending.
SortsBefore(c, d) ==
    \/ LexSmaller(c.fileName, d.fileName)
    \/ c.fileName = d.fileName /\ c.fullStart > d.fullStart

\* C6: in external mode getTemplateInfoAtPosition returns the first candidate in
\* the order (file path ascending, start offset descending) that is class-like and
\* has a template, skipping the others; it returns undefined exactly when no
\* candidate is both; the position has no influence.
C6_ExternalFirstViable ==
    (pc = "done" /\ op = "getTemplateInfoAtPosition" /\ ExternalMode(args.fileName)) =>
        LET candidates == Range(args.compiler.components)
        IN  /\ (ret = Undefined) <=> ~\E d \in candidates : Viable(d)
            /\ ret # Undefined =>
                /\ ret.component \in candidates
                /\ Viable(ret.component)
                /\ ret.template = ret.component.template
                /\ \A d \in candidates : Viable(d) => ~SortsBefore(d, ret.component)
            /\ \A p \in 0..MaxPosition :
                    getTemplateInfoAtPosition(args.fileName, p, args.compiler) = ret

\* A template file whose candidates are given in an order the sort changes, with a
\* candidate that is skipped before the one returned.
C6_Witness ==
    /\ pc = "done" /\ op = "getTemplateInfoAtPosition" /\ ExternalMode(args.fileName)
    /\ Len(args.compiler.components) = 3
    /\ ret # Undefined
    /\ ret.component = args.compiler.components[3]
    /\ \E d \in Range(args.compiler.components) :
            ~Viable(d) /\ SortsBefore(d, ret.component)
    /\ Viable(args.compiler.components[1])
    /\ SortsBefore(ret.component, args.compiler.components[1])

\* The indices of the class-like statements whose range [pos, end] holds the position.
Containing(statements, position) ==
    { i \in 1..Len(statements) :
        /\ statements[i].isClass
        /\ statements[i].pos <= position
        /\ position <= statements[i].end }

Least(S) == CHOOSE i \in S : \A j \in S : i <= j

\* C7: in inline mode getTemplateInfoAtPosition stops at the first class-like
\* top-level statement whose range [pos, end], both ends included, holds the
\* position: it returns that declaration with its template, or undefined when it
\* has none, without looking at a later declaration; it returns undefined too
\* when the source file is missing or no class-like statement holds the position.
C7_InlineFirstContaining ==
    (pc = "done" /\ op = "getTemplateInfoAtPosition" /\ ~ExternalMode(args.fileName)) =>
        IF args.compiler.sourceFile = Undefined THEN ret = Undefined
        ELSE LET statements == args.compiler.sourceFile.statements
                 hits == Containing(statements, args.position)
             IN  IF hits = {} THEN ret = Undefined
                 ELSE IF statements[Least(hits)].template = Null THEN ret = Undefined
                 ELSE ret = [template |-> statements[Least(hits)].template,
                             component |-> statements[Least(hits)]]

\* The position is on the boundary of two classes: the first has no template, the
\* second has one, and the result is undefined.
C7_Witness ==
    /\ pc = "done" /\ op = "getTemplateInfoAtPosition" /\ ~ExternalMode(args.fileName)
    /\ args.compiler.sourceFile # Undefined
    /\ LET statements == args.compiler.sourceFile.statements
       IN  \E i \in 1..(Len(statements) - 1) :
            /\ statements[i].isClass /\ statements[i].template = Null
            /\ statements[i].end = args.position
            /\ statements[i + 1].isClass /\ statements[i + 1].template # Null
            /\ statements[i + 1].pos = args.position
            /\ Containing(statements, args.position) = {i, i + 1}
    /\ ret = Undefined

(***************************************************************************)
(* SelectorAttributionEngine: getDirectiveMatchesForElementTag,            *)
(* getDirectiveMatchesForAttribute.                                        *)
(*                                                                         *)
(* A selector string is the sequence of its tokens: a tag name, "[", an    *)
(* attribute name, "=", a value, "]", ":not(", ")" and ",".                *)
(***************************************************************************)

\* A CssSelector: element is Null when the selector names no tag, attrs is the
\* sequence of <<name, value>> pairs, notSelectors the selectors of its :not(...).
EmptyCssSelector == [element |-> Null, attrs |-> <<>>, notSelectors |-> <<>>]

\* The index of the first ")" at or after index i.
closingIndex(tokens, i) == CHOOSE j \in i..Len(tokens) :
    tokens[j] = ")" /\ \A k \in i..(j - 1) : tokens[k] # ")"

\* CssSelector.parse's _addResult: a selector of :not(...) parts only gets the
\* element '*'.
addResult(results, cssSelector) ==
    Append(results,
           IF cssSelector.notSelectors # <<>> /\ cssSelector.element = Null
                /\ cssSelector.attrs = <<>>
           THEN [cssSelector EXCEPT !.element = <<"*">>]
           ELSE cssSelector)

RECURSIVE parseSimple(_, _, _)
\* The tokens from index i on, without "," and ":not(", read into cssSelector.
parseSimple(tokens, i, cssSelector) ==
    IF i > Len(tokens) THEN cssSelector
    ELSE IF tokens[i] = "["
    THEN IF i + 2 <= Len(tokens) /\ tokens[i + 2] = "="
         THEN parseSimple(tokens, i + 5,
                [cssSelector EXCEPT !.attrs = Append(@, <<tokens[i + 1], tokens[i + 3]>>)])
         ELSE parseSimple(tokens, i + 3,
                [cssSelector EXCEPT !.attrs = Append(@, <<tokens[i + 1], "">>)])
    ELSE parseSimple(tokens, i + 1, [cssSelector EXCEPT !.element = <<tokens[i]>>])

RECURSIVE parseFrom(_, _, _, _)
\* The loop of CssSelector.parse over the tokens from index i on.
parseFrom(tokens, i, results, cssSelector) ==
    IF i > Len(tokens) THEN addResult(results, cssSelector)
    ELSE IF tokens[i] = ","
    THEN parseFrom(tokens, i + 1, addResult(results, cssSelector), EmptyCssSelector)
    ELSE IF tokens[i] = ":not("
    THEN LET j == closingIndex(tokens, i)
             inner == parseSimple(SubSeq(tokens, i + 1, j - 1), 1, EmptyCssSelector)
         IN  parseFrom(tokens, j + 1, results,
                [cssSelector EXCEPT !.notSelectors = Append(@, inner)])
    ELSE IF tokens[i] = "["
    THEN IF i + 2 <= Len(tokens) /\ tokens[i + 2] = "="
         THEN parseFrom(tokens, i + 5, results,
                [cssSelector EXCEPT !.attrs = Append(@, <<tokens[i + 1], tokens[i + 3]>>)])
         ELSE parseFrom(tokens, i + 3, results,
                [cssSelector EXCEPT !.attrs = Append(@, <<tokens[i + 1], "">>)])
    ELSE parseFrom(tokens, i + 1, results, [cssSelector EXCEPT !.element = <<tokens[i]>>])

\* CssSelector.parse: the selectors of a comma-separated list; one selector, with
\* nothing in it, for the empty string.
CssSelectorParse(selector) == parseFrom(selector, 1, <<>>, EmptyCssSelector)

\* Whether a selectable without :not parts matches the parsed host selector: its
\* element is the host's (or '*' and the host has one) and each of its attributes
\* is on the host, with the same value unless it asks for none.  A selectable with
\* neither element nor attribute is never registered, so it matches nothing.
matchesSimple(selectable, cssSelector) ==
    /\ (selectable.element # Null \/ selectable.attrs # <<>>)
    /\ selectable.element # Null =>
            /\ cssSelector.element # Null
            /\ (selectable.element = <<"*">> \/ selectable.element = cssSelector.element)
    /\ \A k \in 1..Len(selectable.attrs) :
            \E j \in 1..Len(cssSelector.attrs) :
                /\ cssSelector.attrs[j][1] = selectable.attrs[k][1]
                /\ (selectable.attrs[k][2] = ""
                        \/ selectable.attrs[k][2] = cssSelector.attrs[j][2])

\* SelectorMatcher.match for one selectable: it matches and none of its :not(...)
\* selectors does.
matcherMatch(selectable, cssSelector) ==
    /\ matchesSimple(selectable, cssSelector)
    /\ \A n \in 1..Len(selectable.notSelectors) :
            ~matchesSimple(selectable.notSelectors[n], cssSelector)

toAttributeString(attribute) ==
    <<"[", attribute.name, "=",
      IF attribute.valueSpan = Undefined THEN "" ELSE attribute.valueSpan.text,
      "]">>

getNodeName(node) == IF node.cls = "Template" THEN node.tagName ELSE node.name

getAttributes(node) ==
    IF node.cls = "Template"
    THEN node.attributes \o node.inputs \o node.templateAttrs
    ELSE node.attributes \o node.inputs

RECURSIVE join(_)
\* Array.prototype.join(''): the concatenation of the strings.
join(strings) == IF strings = <<>> THEN <<>> ELSE Head(strings) \o join(Tail(strings))

\* attributes.map(toAttributeString)
mapToAttributeString(attributes) ==
    [i \in 1..Len(attributes) |-> toAttributeString(attributes[i])]

\* attributes.filter(a => a.name !== name)
filterExcludingName(attributes, name) ==
    SelectSeq(attributes, LAMBDA a : a.name # name)

\* A mutant of difference: nothing is taken away.
differenceKeepsLeft(left, right) == left

difference(left, right) == {dir \in left : dir \notin right}

\* A mutant of getDirectiveMatchesForSelector: a null selector is read as '*'.
getDirectiveMatchesForSelectorNullAsStar(directives, selector) ==
    LET selectors == CssSelectorParse(selector)
    IN  IF Len(selectors) = 0 THEN {}
        ELSE { directives[i] : i \in
                { i \in 1..Len(directives) :
                    LET selectables ==
                            CssSelectorParse(IF directives[i].selector = Null
                                             THEN <<"*">> ELSE directives[i].selector)
                    IN  \E s \in 1..Len(selectors) : \E d \in 1..Len(selectables) :
                            matcherMatch(selectables[d], selectors[s]) } }

getDirectiveMatchesForSelector(directives, selector) ==
    LET selectors == CssSelectorParse(selector)
    IN  IF Len(selectors) = 0 THEN {}
        ELSE { directives[i] : i \in
                { i \in 1..Len(directives) :
                    IF directives[i].selector = Null THEN FALSE
                    ELSE LET selectables == CssSelectorParse(directives[i].selector)
                         IN  \E s \in 1..Len(selectors) : \E d \in 1..Len(selectables) :
                                matcherMatch(selectables[d], selectors[s]) } }

\* A mutant of getDirectiveMatchesForElementTag: the difference is taken the wrong
\* way round.
getDirectiveMatchesForElementTagSwapped(element, directives) ==
    LET attributes == getAttributes(element)
        allAttrs == mapToAttributeString(attributes)
        allDirectiveMatches ==
            getDirectiveMatchesForSelector(directives, <<getNodeName(element)>> \o join(allAttrs))
        matchesWithoutElement == getDirectiveMatchesForSelector(directives, join(allAttrs))
    IN  difference(matchesWithoutElement, allDirectiveMatches)

getDirectiveMatchesForElementTag(element, directives) ==
    LET attributes == getAttributes(element)
        allAttrs == mapToAttributeString(attributes)
        allDirectiveMatches ==
            getDirectiveMatchesForSelector(directives, <<getNodeName(element)>> \o join(allAttrs))
        matchesWithoutElement == getDirectiveMatchesForSelector(directives, join(allAttrs))
    IN  difference(allDirectiveMatches, matchesWithoutElement)

getDirectiveMatchesForAttribute(name, hostNode, directives) ==
    LET attributes == getAttributes(hostNode)
        allAttrs == mapToAttributeString(attributes)
        allDirectiveMatches ==
            getDirectiveMatchesForSelector(directives, <<getNodeName(hostNode)>> \o join(allAttrs))
        attrsExcludingName == mapToAttributeString(filterExcludingName(attributes, name))
        matchesWithoutAttr == getDirectiveMatchesForSelector(directives, join(attrsExcludingName))
    IN  difference(allDirectiveMatches, matchesWithoutAttr)

\* The attributes a host node can carry: a, a="x" and b.
HostAttributes ==
    { [name |-> "a", valueSpan |-> Undefined],
      [name |-> "a", valueSpan |-> [text |-> "x"]],
      [name |-> "b", valueSpan |-> Undefined] }

\* The <div> hosts: an Element with its attributes split over attributes and
\* inputs, a Template with them split over inputs and templateAttrs.
HostNodes ==
    { [cls |-> "Element", name |-> "div",
       attributes |-> SubSeq(q, 1, k), inputs |-> SubSeq(q, k + 1, Len(q))]
        : <<q, k>> \in { y \in SeqsUpTo(HostAttributes, MaxAttrs) \X (0..MaxAttrs) :
                            y[2] <= Len(y[1]) } }
    \cup
    { [cls |-> "Template", tagName |-> "div", attributes |-> <<>>,
       inputs |-> SubSeq(q, 1, k), templateAttrs |-> SubSeq(q, k + 1, Len(q))]
        : <<q, k>> \in { y \in SeqsUpTo(HostAttributes, MaxAttrs) \X (0..MaxAttrs) :
                            y[2] <= Len(y[1]) } }

\* The directives there are, by selector: none, div, span, [a], [b], [a=x],
\* div[a], div[b], [a][b], :not(div), [a]:not(div), [a]:not([b]) and span,[b].
DirectiveSymbols ==
    << [selector |-> Null],
       [selector |-> <<"div">>],
       [selector |-> <<"span">>],
       [selector |-> <<"[", "a", "]">>],
       [selector |-> <<"[", "b", "]">>],
       [selector |-> <<"[", "a", "=", "x", "]">>],
       [selector |-> <<"div", "[", "a", "]">>],
       [selector |-> <<"div", "[", "b", "]">>],
       [selector |-> <<"[", "a", "]", "[", "b", "]">>],
       [selector |-> <<":not(", "div", ")">>],
       [selector |-> <<"[", "a", "]", ":not(", "div", ")">>],
       [selector |-> <<"[", "a", "]", ":not(", "[", "b", "]", ")">>],
       [selector |-> <<"span", ",", "[", "b", "]">>] >>

\* The candidate lists: at most MaxDirectives different directives, in the order
\* of DirectiveSymbols (the results are sets, so the order decides nothing).
DirectiveLists ==
    { SubSeqAt(DirectiveSymbols, S) :
        S \in { T \in SUBSET (1..Len(DirectiveSymbols)) : Cardinality(T) <= MaxDirectives } }

InitMatch ==
    /\ pc = "call"
    /\ \/ /\ op = "getDirectiveMatchesForElementTag"
          /\ args \in { [element |-> h, directives |-> d]
                            : h \in HostNodes, d \in DirectiveLists }
       \/ /\ op = "getDirectiveMatchesForAttribute"
          /\ args \in { [name |-> n, hostNode |-> h, directives |-> d]
                            : n \in {"a", "b"}, h \in HostNodes, d \in DirectiveLists }
    /\ ret = NoReturn

CallGetDirectiveMatchesForElementTag ==
    /\ pc = "call"
    /\ op = "getDirectiveMatchesForElementTag"
    /\ ret' = getDirectiveMatchesForElementTag(args.element, args.directives)
    /\ pc' = "done"
    /\ UNCHANGED <<op, args>>

CallGetDirectiveMatchesForAttribute ==
    /\ pc = "call"
    /\ op = "getDirectiveMatchesForAttribute"
    /\ ret' = getDirectiveMatchesForAttribute(args.name, args.hostNode, args.directives)
    /\ pc' = "done"
    /\ UNCHANGED <<op, args>>

NextMatch ==
    \/ CallGetDirectiveMatchesForElementTag
    \/ CallGetDirectiveMatchesForAttribute

SpecMatch == InitMatch /\ [][NextMatch]_vars

\* Plain matching: the directives of the list with a selector one of whose
\* alternatives matches the compound selector string.
PlainMatches(directives, selector) ==
    { dir \in Range(directives) :
        /\ dir.selector # Null
        /\ \E d \in Range(CssSelectorParse(dir.selector)) :
            \E s \in Range(CssSelectorParse(selector)) : matcherMatch(d, s) }

\* The compound selector strings of a host: its attributes alone, and behind its
\* tag name.
AttributesSelector(attributes) == join(mapToAttributeString(attributes))
TagSelector(host, attributes) == <<getNodeName(host)>> \o AttributesSelector(attributes)

TagCallDone == pc = "done" /\ op = "getDirectiveMatchesForElementTag"
AttributeCallDone == pc = "done" /\ op = "getDirectiveMatchesForAttribute"

\* C1: getDirectiveMatchesForElementTag(host, D) holds no directive that matches
\* the selector of the host's attributes without the tag name.
C1_TagResultDisjoint ==
    TagCallDone =>
        ret \cap PlainMatches(args.directives,
                              AttributesSelector(getAttributes(args.element))) = {}

\* A host with attributes, one directive attributed to the tag and another that
\* matches the attributes alone.
C1_Witness ==
    /\ TagCallDone
    /\ ret # {}
    /\ getAttributes(args.element) # <<>>
    /\ PlainMatches(args.directives, AttributesSelector(getAttributes(args.element))) # {}

\* C2 as stated: the tag attribution together with the directives matching the
\* tag-stripped selector is the set of directives matching the full selector.
C2_UnionIsAllMatches ==
    TagCallDone =>
        ret \cup PlainMatches(args.directives,
                              AttributesSelector(getAttributes(args.element)))
            = PlainMatches(args.directives,
                           TagSelector(args.element, getAttributes(args.element)))

\* C2 amended: the tag attribution together with the directives matching both the
\* tag-stripped and the full selector is the set of directives matching the full
\* selector.
C2_UnionWithinAllMatches ==
    TagCallDone =>
        LET allMatches == PlainMatches(args.directives,
                                       TagSelector(args.element, getAttributes(args.element)))
            withoutTag == PlainMatches(args.directives,
                                       AttributesSelector(getAttributes(args.element)))
        IN  ret \cup (withoutTag \cap allMatches) = allMatches

\* Of two directives matching the host, one is attributed to the tag and the other
\* matches without it.
C2_Witness ==
    /\ TagCallDone
    /\ Cardinality(ret) = 1
    /\ Cardinality(PlainMatches(args.directives,
                                TagSelector(args.element, getAttributes(args.element)))) = 2
    /\ Cardinality(PlainMatches(args.directives,
                                AttributesSelector(getAttributes(args.element)))) = 1

\* C3: every directive of getDirectiveMatchesForAttribute(name, host, D) matches
\* the host's full selector and does not match the host with the attributes named
\* name removed, tag name and other attributes kept.
C3_AttributeIsTheCause ==
    AttributeCallDone =>
        \A dir \in ret :
            /\ dir \in PlainMatches(args.directives,
                        TagSelector(args.hostNode, getAttributes(args.hostNode)))
            /\ dir \notin PlainMatches(args.directives,
                        TagSelector(args.hostNode,
                            filterExcludingName(getAttributes(args.hostNode), args.name)))

\* C4: no directive with a null selector is in the result of
\* getDirectiveMatchesForElementTag or getDirectiveMatchesForAttribute.
C4_NullSelectorNeverMatches ==
    (TagCallDone \/ AttributeCallDone) => \A dir \in ret : dir.selector # Null

\* A list with a null-selector directive and a matching one has been attributed.
C4_Witness ==
    /\ TagCallDone \/ AttributeCallDone
    /\ \E dir \in Range(args.directives) : dir.selector = Null
    /\ ret # {}

====
